---- MODULE Spec2Model ----
(***************************************************************************)
(* Model of scripts/download_dictionary.py: the frequency table builder    *)
(* (download_frequency_lists) and the CC-CEDICT line parser / record       *)
(* merger (parse_cedict).                                                  *)
(*                                                                         *)
(* Text is modelled as a sequence of one-character strings, so that the    *)
(* splitting and stripping done by the code is computed, not assumed.      *)
(* An optional value (Python None or a value) is <<>> or <<v>>.            *)
(***************************************************************************)
EXTENDS Integers, Sequences, FiniteSets, TLC

\* ------------------------------------------------------------------ bounds
\* number of lines read from the dictionary file in one run
MaxLines == 3
\* largest score held by the frequency mapping handed to parse_cedict
MaxScore == 2
\* largest max_entries argument
MaxCap == 2
\* number of table rows taken from one frequency page
MaxRows == 2

\* ------------------------------------------------------- program constants
NumPages == 10
PageSize == 1000
ScoreBase == 11000

\* ---------------------------------------------------------------- strings
None == <<>>
Some(v) == <<v>>

Whitespace == {" ", "\n"}

\* s.find(c) + 1: position of the first c in s, 0 when there is none
IndexOf(s, c) ==
  IF \E k \in 1..Len(s) : s[k] = c
  THEN CHOOSE k \in 1..Len(s) : s[k] = c /\ \A j \in 1..(k-1) : s[j] # c
  ELSE 0

\* s.split(c, 1)
SplitFirst(s, c) ==
  LET k == IndexOf(s, c)
  IN IF k = 0 THEN <<s>>
     ELSE <<SubSeq(s, 1, k-1), SubSeq(s, k+1, Len(s))>>

\* s.split(c)
RECURSIVE SplitAll(_, _)
SplitAll(s, c) ==
  LET k == IndexOf(s, c)
  IN IF k = 0 THEN <<s>>
     ELSE <<SubSeq(s, 1, k-1)>> \o SplitAll(SubSeq(s, k+1, Len(s)), c)

RECURSIVE LStrip(_, _)
LStrip(s, chars) ==
  IF s # <<>> /\ Head(s) \in chars THEN LStrip(Tail(s), chars) ELSE s

RECURSIVE RStrip(_, _)
RStrip(s, chars) ==
  IF s # <<>> /\ s[Len(s)] \in chars
  THEN RStrip(SubSeq(s, 1, Len(s)-1), chars) ELSE s

\* s.strip(chars); s.strip() is Strip(s, Whitespace)
Strip(s, chars) == RStrip(LStrip(s, chars), chars)

\* the first whitespace-delimited token of a text with no leading whitespace
RECURSIVE FirstToken(_)
FirstToken(s) ==
  IF s = <<>> \/ Head(s) \in Whitespace THEN <<>>
  ELSE <<Head(s)>> \o FirstToken(Tail(s))

\* s.split(): the whitespace-delimited tokens of s
RECURSIVE SplitWS(_)
SplitWS(s) ==
  LET t == LStrip(s, Whitespace)
  IN IF t = <<>> THEN <<>>
     ELSE LET w == FirstToken(t)
          IN <<w>> \o SplitWS(SubSeq(t, Len(w)+1, Len(t)))

\* [d.strip() for d in pieces if d.strip()]
RECURSIVE StripNonEmpty(_)
StripNonEmpty(pieces) ==
  IF pieces = <<>> THEN <<>>
  ELSE LET d == Strip(Head(pieces), Whitespace)
       IN (IF d = <<>> THEN <<>> ELSE <<d>>) \o StripNonEmpty(Tail(pieces))

\* ---------------------------------------------------------- the line parser
Rejected == [ok |-> FALSE]

\* a variant that takes a line with no ']' as a pronunciation without glosses
ParseLineNoCloseCheck(line) ==
  IF line # <<>> /\ Head(line) = "#" THEN Rejected
  ELSE LET parts == SplitFirst(line, "[")
       IN IF Len(parts) < 2 THEN Rejected
          ELSE LET chars == SplitWS(Strip(parts[1], Whitespace))
               IN IF Len(chars) < 2 THEN Rejected
                  ELSE LET pinyin_def == SplitFirst(parts[2], "]")
                           rest == IF Len(pinyin_def) < 2 THEN <<>> ELSE pinyin_def[2]
                       IN [ok |-> TRUE,
                           traditional |-> chars[1],
                           simplified |-> chars[2],
                           pinyin |-> Strip(pinyin_def[1], Whitespace),
                           definitions |->
                             StripNonEmpty(SplitAll(Strip(rest, {"/"}), "/"))]

\* the body of the try block up to the definitions: a candidate entry or a skip
ParseLine(line) ==
  IF line # <<>> /\ Head(line) = "#" THEN Rejected
  ELSE LET parts == SplitFirst(line, "[")
       IN IF Len(parts) < 2 THEN Rejected
          ELSE LET chars == SplitWS(Strip(parts[1], Whitespace))
               IN IF Len(chars) < 2 THEN Rejected
                  ELSE LET pinyin_def == SplitFirst(parts[2], "]")
                       IN IF Len(pinyin_def) < 2 THEN Rejected
                          ELSE [ok |-> TRUE,
                                traditional |-> chars[1],
                                simplified |-> chars[2],
                                pinyin |-> Strip(pinyin_def[1], Whitespace),
                                definitions |->
                                  StripNonEmpty(SplitAll(Strip(pinyin_def[2], {"/"}), "/"))]

\* --------------------------------------------------------- the input lines
\* "A a [p] /g/h/\n"
LineAap == <<"A"," ","a"," ","[","p","]"," ","/","g","/","h","/","\n">>
\* "A a [q] /k/\n"
LineAaq == <<"A"," ","a"," ","[","q","]"," ","/","k","/","\n">>
\* "A b [p] /k/\n"
LineAbp == <<"A"," ","b"," ","[","p","]"," ","/","k","/","\n">>
\* "B b x [ q ] /g]/[h/ /"  (extra head token, brackets inside the glosses)
LineBbq == <<"B"," ","b"," ","x"," ","["," ","q"," ","]"," ","/","g","]","/","[","h","/"," ","/">>
\* "#A a [p] /g/\n"
LineComment == <<"#","A"," ","a"," ","[","p","]"," ","/","g","/","\n">>
\* "A a p /g/\n"
LineNoOpen == <<"A"," ","a"," ","p"," ","/","g","/","\n">>
\* "A a [q /g/\n"
LineNoClose == <<"A"," ","a"," ","[","q"," ","/","g","/","\n">>
\* "B [q] /g/\n"
LineOneToken == <<"B"," ","[","q","]"," ","/","g","/","\n">>

Lines == {LineAap, LineAaq, LineAbp, LineBbq,
          LineComment, LineNoOpen, LineNoClose, LineOneToken}

\* the candidate entry, or the skip, of every input line
Parsed == [line \in Lines |-> ParseLine(line)]

\* the word texts the frequency mapping may hold
FreqTexts == {<<"A">>, <<"a">>, <<"b">>}

\* the frequency mappings handed to parse_cedict
FreqMaps == UNION {[D -> 0..MaxScore] : D \in SUBSET FreqTexts}

\* the max_entries arguments: None or 0..MaxCap
Caps == {None} \cup {Some(n) : n \in 0..MaxCap}


\* ------------------------------------------------------- the record merger
EmptyMap == [k \in {} |-> None]

\* mapping.get(key)
Get(mapping, key) == IF key \in DOMAIN mapping THEN Some(mapping[key]) ELSE None

\* Python truth of an optional integer: None and 0 are false
Truthy(v) == v # None /\ v[1] # 0

\* a or b
Or(a, b) == IF Truthy(a) THEN a ELSE b

\* a lookup that defaults to 0 instead of None
LookupFrequencyDefaultZero(fm, traditional, simplified) ==
  Or(IF traditional \in DOMAIN fm THEN Some(fm[traditional]) ELSE Some(0),
     IF simplified \in DOMAIN fm THEN Some(fm[simplified]) ELSE Some(0))

\* frequency_map.get(traditional) or frequency_map.get(simplified)
LookupFrequency(fm, traditional, simplified) ==
  Or(Get(fm, traditional), Get(fm, simplified))

\* if pinyin != existing['pinyin']: existing['pinyin'] = f"{existing['pinyin']}; {pinyin}"
MergePinyin(existing_pinyin, pinyin) ==
  IF pinyin # existing_pinyin
  THEN existing_pinyin \o <<";", " ">> \o pinyin
  ELSE existing_pinyin

\* a variant that adds the marker only for a different pronunciation
MergeDefinitionsMarkerIfDifferent(existing, pinyin, definitions) ==
  IF pinyin # existing.pinyin
  THEN Append(existing.definitions, <<"[">> \o pinyin \o <<"]">>) \o definitions
  ELSE existing.definitions \o definitions

\* existing['definitions'].append(f"[{pinyin}]"); existing['definitions'].extend(definitions)
MergeDefinitions(existing, pinyin, definitions) ==
  Append(existing.definitions, <<"[">> \o pinyin \o <<"]">>) \o definitions

\* a variant that takes every offered frequency
MergeFrequencyAlwaysTake(existing_frequency, frequency) ==
  IF Truthy(frequency) THEN frequency ELSE existing_frequency

\* if frequency and (existing['frequency'] is None or frequency > existing['frequency'])
MergeFrequency(existing_frequency, frequency) ==
  IF Truthy(frequency)
     /\ (existing_frequency = None \/ frequency[1] > existing_frequency[1])
  THEN frequency
  ELSE existing_frequency

\* a variant that refreshes the simplified spelling on every merge
MergeRecordTakeSimplified(existing, cand, frequency) ==
  [traditional |-> existing.traditional,
   simplified  |-> cand.simplified,
   pinyin      |-> MergePinyin(existing.pinyin, cand.pinyin),
   definitions |-> MergeDefinitions(existing, cand.pinyin, cand.definitions),
   frequency   |-> MergeFrequency(existing.frequency, frequency)]

\* the branch "if traditional in dictionary"
MergeRecord(existing, cand, frequency) ==
  [traditional |-> existing.traditional,
   simplified  |-> existing.simplified,
   pinyin      |-> MergePinyin(existing.pinyin, cand.pinyin),
   definitions |-> MergeDefinitions(existing, cand.pinyin, cand.definitions),
   frequency   |-> MergeFrequency(existing.frequency, frequency)]

\* the branch "else": a new entry
NewRecord(cand, frequency) ==
  [traditional |-> cand.traditional,
   simplified  |-> cand.simplified,
   pinyin      |-> cand.pinyin,
   definitions |-> cand.definitions,
   frequency   |-> frequency]

\* dictionary[key] = rec
Put(dict, key, rec) ==
  [k \in (DOMAIN dict) \cup {key} |-> IF k = key THEN rec ELSE dict[k]]

\* one iteration of "for line in f" up to and including "count += 1"
ProcessLine(fm, dict, cnt, line) ==
  LET cand == Parsed[line]
  IN IF ~cand.ok THEN [dictionary |-> dict, count |-> cnt]
     ELSE LET frequency == LookupFrequency(fm, cand.traditional, cand.simplified)
              rec == IF cand.traditional \in DOMAIN dict
                     THEN MergeRecord(dict[cand.traditional], cand, frequency)
                     ELSE NewRecord(cand, frequency)
          IN [dictionary |-> Put(dict, cand.traditional, rec), count |-> cnt + 1]

\* a variant that stops one entry late
CapReachedOffByOne(cap, cnt) == Truthy(cap) /\ cnt > cap[1]

\* if max_entries and count >= max_entries
CapReached(cap, cnt) == Truthy(cap) /\ cnt >= cap[1]

\* -------------------------------------------------------------------- state
VARIABLES
  frequency_map,  \* word text -> score
  max_entries,    \* the max_entries argument of parse_cedict
  dictionary,     \* traditional -> record
  count,          \* candidates processed by parse_cedict
  pc,             \* parse_cedict: "loop" or "done"
  eof,            \* parse_cedict left its loop at the end of the file
  consumed,       \* the lines parse_cedict has read, in order
  i,              \* download_frequency_lists: index of the page
  row_count,      \* download_frequency_lists: rows with two cells so far
  tr_index,       \* download_frequency_lists: rows of tr_matches visited
  fpc,            \* download_frequency_lists: "fetch", "rows" or "done"
  best,           \* word text -> lowest rank of a row that yielded it
  skipped         \* word texts a later row offered again and did not change

vars == <<frequency_map, max_entries, dictionary, count, pc, eof, consumed,
          i, row_count, tr_index, fpc, best, skipped>>

parseVars == <<max_entries, dictionary, count, pc, eof, consumed>>
freqVars == <<i, row_count, tr_index, fpc, best, skipped>>

\* ------------------------------------------------------------ parse_cedict
\* parse_cedict(filename, frequency_map, max_entries) before its first line
Init ==
  /\ frequency_map \in FreqMaps
  /\ max_entries \in Caps
  /\ dictionary = EmptyMap
  /\ count = 0
  /\ pc = "loop"
  /\ eof = FALSE
  /\ consumed = <<>>
  /\ i = 0 /\ row_count = 0 /\ tr_index = 0 /\ fpc = "done" /\ best = EmptyMap
  /\ skipped = {}

\* the loop body for the next line of the file
Step(line) ==
  /\ pc = "loop"
  /\ Len(consumed) < MaxLines
  /\ LET r == ProcessLine(frequency_map, dictionary, count, line)
     IN /\ dictionary' = r.dictionary
        /\ count' = r.count
        /\ pc' = IF Parsed[line].ok /\ CapReached(max_entries, r.count)
                 THEN "done" ELSE "loop"
  /\ consumed' = Append(consumed, line)
  /\ UNCHANGED <<frequency_map, max_entries, eof>>
  /\ UNCHANGED freqVars

\* a comment or malformed line: continue
SkipLine(line) == ~Parsed[line].ok /\ Step(line)

\* a candidate whose traditional text has no record yet
NewEntry(line) ==
  /\ Parsed[line].ok
  /\ Parsed[line].traditional \notin DOMAIN dictionary
  /\ Step(line)

\* a candidate whose traditional text already has a record
MergeEntry(line) ==
  /\ Parsed[line].ok
  /\ Parsed[line].traditional \in DOMAIN dictionary
  /\ Step(line)

\* the file has no further line
EndOfFile ==
  /\ pc = "loop"
  /\ pc' = "done"
  /\ eof' = TRUE
  /\ UNCHANGED <<frequency_map, max_entries, dictionary, count, consumed>>
  /\ UNCHANGED freqVars

Next ==
  \/ \E line \in Lines : SkipLine(line)
  \/ \E line \in Lines : NewEntry(line)
  \/ \E line \in Lines : MergeEntry(line)
  \/ EndOfFile

Spec == Init /\ [][Next]_vars

\* ------------------------------------------------ download_frequency_lists
\* re.sub(r'<[^>]+>', '', text): drop every '<', one or more non-'>', '>'
RECURSIVE RemoveTags(_)
RemoveTags(text) ==
  IF text = <<>> THEN <<>>
  ELSE LET close == IndexOf(Tail(text), ">")
       IN IF Head(text) = "<" /\ close > 1
          THEN RemoveTags(SubSeq(text, close + 2, Len(text)))
          ELSE <<Head(text)>> \o RemoveTags(Tail(text))

\* strip_tags(text)
strip_tags(text) == Strip(RemoveTags(text), Whitespace)

\* the contents of the first two <td> cells of a table row
\* "A", "<b>A</b> ", "<i>a</i>", " ", "<i></i>"
Cells == {<<"A">>,
          <<"<","b",">","A","<","/","b",">"," ">>,
          <<"<","i",">","a","<","/","i",">">>,
          <<" ">>,
          <<"<","i",">","<","/","i",">">>}

\* the text of every cell
Stripped == [cell \in Cells |-> strip_tags(cell)]

\* rank = (i * 1000) + row_count
Rank(page, position) == (page * PageSize) + position

\* a variant with the base one higher
ScoreOneHigher(rank) == (ScoreBase + 1) - rank

\* 11000 - rank
Score(rank) == ScoreBase - rank

\* a variant in which the last row of a word wins
AssignAlways(fm, word, score) ==
  IF word # <<>> THEN Put(fm, word, score) ELSE fm

\* if word and word not in frequency_map: frequency_map[word] = score
AssignIfAbsent(fm, word, score) ==
  IF word # <<>> /\ word \notin DOMAIN fm THEN Put(fm, word, score) ELSE fm

\* the lower of the rank recorded for a word and a new rank
Lowest(ranks, word, rank) ==
  IF word \in DOMAIN ranks /\ ranks[word] <= rank THEN ranks
  ELSE Put(ranks, word, rank)

\* download_frequency_lists() before its first page
InitFreq ==
  /\ frequency_map = EmptyMap
  /\ i = 0 /\ row_count = 0 /\ tr_index = 0 /\ fpc = "fetch"
  /\ best = EmptyMap /\ skipped = {}
  /\ max_entries = None /\ dictionary = EmptyMap /\ count = 0
  /\ pc = "idle" /\ eof = FALSE /\ consumed = <<>>

\* curl or the read of the page raises: warning, continue with the next page
FetchFails ==
  /\ fpc = "fetch" /\ i < NumPages
  /\ i' = i + 1
  /\ UNCHANGED <<frequency_map, row_count, tr_index, fpc, best, skipped>>
  /\ UNCHANGED parseVars

\* the page is read and its rows matched; row_count = 0
FetchPage ==
  /\ fpc = "fetch" /\ i < NumPages
  /\ fpc' = "rows" /\ row_count' = 0 /\ tr_index' = 0
  /\ UNCHANGED <<frequency_map, i, best, skipped>>
  /\ UNCHANGED parseVars

\* a row with fewer than two cells: continue
ShortRow ==
  /\ fpc = "rows" /\ tr_index < MaxRows
  /\ tr_index' = tr_index + 1
  /\ UNCHANGED <<frequency_map, i, row_count, fpc, best, skipped>>
  /\ UNCHANGED parseVars

\* a row whose first or second cell has no text: counted, then skipped
EmptyCellRow(cell0, cell1) ==
  /\ fpc = "rows" /\ tr_index < MaxRows
  /\ Stripped[cell0] = <<>> \/ Stripped[cell1] = <<>>
  /\ tr_index' = tr_index + 1
  /\ row_count' = row_count + 1
  /\ UNCHANGED <<frequency_map, i, fpc, best, skipped>>
  /\ UNCHANGED parseVars

\* a row that yields a (traditional, simplified) pair
WordRow(cell0, cell1) ==
  /\ fpc = "rows" /\ tr_index < MaxRows
  /\ Stripped[cell0] # <<>> /\ Stripped[cell1] # <<>>
  /\ tr_index' = tr_index + 1
  /\ row_count' = row_count + 1
  /\ LET trad == Strip(Stripped[cell0], Whitespace)
         simp == Strip(Stripped[cell1], Whitespace)
         rank == Rank(i, row_count + 1)
     IN /\ frequency_map' =
             AssignIfAbsent(AssignIfAbsent(frequency_map, trad, Score(rank)),
                            simp, Score(rank))
        /\ best' = Lowest(Lowest(best, trad, (i * 1000) + row_count'),
                          simp, (i * 1000) + row_count')
        /\ skipped' = skipped \cup ({trad, simp} \cap DOMAIN frequency_map)
  /\ UNCHANGED <<i, fpc>>
  /\ UNCHANGED parseVars

\* the rows of the page are exhausted: next page
EndOfPage ==
  /\ fpc = "rows"
  /\ fpc' = "fetch" /\ i' = i + 1
  /\ UNCHANGED <<frequency_map, row_count, tr_index, best, skipped>>
  /\ UNCHANGED parseVars

\* every page has been visited: return frequency_map
ReturnMap ==
  /\ fpc = "fetch" /\ i = NumPages
  /\ fpc' = "done"
  /\ UNCHANGED <<frequency_map, i, row_count, tr_index, best, skipped>>
  /\ UNCHANGED parseVars

NextFreq ==
  \/ FetchFails
  \/ FetchPage
  \/ ShortRow
  \/ \E cell0, cell1 \in Cells : EmptyCellRow(cell0, cell1)
  \/ \E cell0, cell1 \in Cells : WordRow(cell0, cell1)
  \/ EndOfPage
  \/ ReturnMap

SpecFreq == InitFreq /\ [][NextFreq]_vars

\* ---------------------------------------------------- history of the parse
\* the candidate entries of a sequence of lines, in line order
RECURSIVE CandidatesOf(_)
CandidatesOf(lines) ==
  IF lines = <<>> THEN <<>>
  ELSE (IF Parsed[Head(lines)].ok THEN <<Parsed[Head(lines)]>> ELSE <<>>)
       \o CandidatesOf(Tail(lines))

\* the accepted candidates that carry one traditional key, in line order
CandsFor(key) ==
  SelectSeq(CandidatesOf(consumed), LAMBDA c : c.traditional = key)

\* the loop of parse_cedict run without a cap over a whole sequence of lines
RECURSIVE FoldLines(_, _, _)
FoldLines(fm, acc, lines) ==
  IF lines = <<>> THEN acc
  ELSE FoldLines(fm, ProcessLine(fm, acc.dictionary, acc.count, Head(lines)),
                 Tail(lines))

Start == [dictionary |-> EmptyMap, count |-> 0]

A == <<"A">>
B == <<"B">>

\* ---------------------------------------------------------------- C1
RECURSIVE ExpectedDefinitions(_)
ExpectedDefinitions(cands) ==
  IF Len(cands) = 1 THEN cands[1].definitions
  ELSE LET last == cands[Len(cands)]
       IN ExpectedDefinitions(SubSeq(cands, 1, Len(cands) - 1))
          \o << <<"[">> \o last.pinyin \o <<"]">> >> \o last.definitions

\* C1: the definitions of every record are the first candidate's glosses
\* followed, for each later candidate of the same traditional key in line
\* order, by the marker "[" + pronunciation + "]" and that candidate's
\* glosses, whether or not the pronunciation repeats an earlier one.
C1_Definitions ==
  \A key \in DOMAIN dictionary :
    dictionary[key].definitions = ExpectedDefinitions(CandsFor(key))

\* two lines of one key with the same pronunciation: the marker is still added
C1_Witness ==
  /\ consumed = <<LineAap, LineAbp>>
  /\ dictionary[A].pinyin = <<"p">>
  /\ dictionary[A].definitions = << <<"g">>, <<"h">>, <<"[", "p", "]">>, <<"k">> >>

\* ---------------------------------------------------------------- C2
RECURSIVE ExpectedPinyin(_)
ExpectedPinyin(cands) ==
  IF Len(cands) = 1 THEN cands[1].pinyin
  ELSE LET last == cands[Len(cands)]
           earlier == SubSeq(cands, 1, Len(cands) - 1)
       IN IF \E k \in 1..Len(earlier) : earlier[k].pinyin = last.pinyin
          THEN ExpectedPinyin(earlier)
          ELSE ExpectedPinyin(earlier) \o <<";", " ">> \o last.pinyin

\* C2: the pronunciation of every record is the first candidate's
\* pronunciation with each later candidate's pronunciation appended after
\* "; " only when no earlier candidate of the record had that pronunciation.
C2_PronunciationNotRepeated ==
  \A key \in DOMAIN dictionary :
    dictionary[key].pinyin = ExpectedPinyin(CandsFor(key))

\* ---------------------------------------------------------------- C3
\* C3 as stated: a record has a frequency only if the frequency mapping has
\* an entry for the record's own traditional or stored simplified text.
C3_OwnTextsOnly ==
  \A key \in DOMAIN dictionary :
    dictionary[key].frequency # None =>
      \/ dictionary[key].traditional \in DOMAIN frequency_map
      \/ dictionary[key].simplified \in DOMAIN frequency_map

\* C3 amended: a record has a frequency only if the frequency mapping has an
\* entry for the record's traditional text or for the simplified text of one
\* of the candidates merged into it (the first or a later one).
C3_SomeCandidateText ==
  \A key \in DOMAIN dictionary :
    dictionary[key].frequency # None =>
      \/ dictionary[key].traditional \in DOMAIN frequency_map
      \/ \E k \in 1..Len(CandsFor(key)) :
            CandsFor(key)[k].simplified \in DOMAIN frequency_map

\* a later line with another simplified spelling brings the only frequency
C3_Witness ==
  /\ consumed = <<LineAap, LineAbp>>
  /\ DOMAIN frequency_map = {<<"b">>}
  /\ frequency_map[<<"b">>] = 2
  /\ dictionary[A].simplified = <<"a">>
  /\ dictionary[A].frequency = Some(2)

\* ---------------------------------------------------------------- C4
\* the line read by the step, when the step reads one
ReadsLine == consumed' # consumed
LineRead == consumed'[Len(consumed')]
Offered ==
  LET t == Parsed[LineRead].traditional
      s == Parsed[LineRead].simplified
  IN IF t \in DOMAIN frequency_map /\ frequency_map[t] # 0
     THEN Some(frequency_map[t])
     ELSE IF s \in DOMAIN frequency_map THEN Some(frequency_map[s]) ELSE None

\* C4: a merge replaces the stored frequency only when the frequency offered
\* by the incoming candidate is present and either nothing is stored or the
\* offered value is strictly greater; a stored frequency never decreases and
\* never becomes absent.
C4_FrequencyOnlyRaised ==
  [][\A key \in DOMAIN dictionary :
       LET old == dictionary[key].frequency
           new == dictionary'[key].frequency
       IN /\ key \in DOMAIN dictionary'
          /\ old # None => (new # None /\ new[1] >= old[1])
          /\ new # old =>
               /\ ReadsLine /\ Parsed[LineRead].ok
               /\ Parsed[LineRead].traditional = key
               /\ Offered # None /\ new = Offered
               /\ (old = None \/ Offered[1] > old[1])]_vars

\* a merge offered 1 to a record that stored 2, and the record kept 2
C4_Witness ==
  /\ consumed = <<LineAap, LineAbp>>
  /\ frequency_map = [t \in {<<"a">>, <<"b">>} |-> IF t = <<"a">> THEN 2 ELSE 1]
  /\ dictionary[A].frequency = Some(2)

\* ---------------------------------------------------------------- C5
\* C5: the frequency of a record made from one candidate is the mapping's
\* value for the traditional text whenever the mapping has one, whatever the
\* value; otherwise its value for the simplified text; otherwise unset.
C5_TraditionalFirst ==
  \A key \in DOMAIN dictionary :
    Len(CandsFor(key)) = 1 =>
      LET c == CandsFor(key)[1]
      IN dictionary[key].frequency =
           IF c.traditional \in DOMAIN frequency_map
           THEN Some(frequency_map[c.traditional])
           ELSE IF c.simplified \in DOMAIN frequency_map
                THEN Some(frequency_map[c.simplified])
                ELSE None

\* ---------------------------------------------------------------- C8
\* the number of whitespace-delimited tokens of a text
TokenCount(text) ==
  Cardinality({k \in 1..Len(text) :
                 /\ text[k] \notin Whitespace
                 /\ (k = 1 \/ text[k-1] \in Whitespace)})

\* the lines C8 names: a comment, no '[', no ']' after the first '[', or
\* fewer than two tokens before the first '['
NamedMalformed(line) ==
  LET open == IndexOf(line, "[")
  IN \/ (line # <<>> /\ line[1] = "#")
     \/ open = 0
     \/ ~ \E k \in (open + 1)..Len(line) : line[k] = "]"
     \/ TokenCount(SubSeq(line, 1, open - 1)) < 2

WithoutMalformed(lines) == SelectSeq(lines, LAMBDA l : ~NamedMalformed(l))

\* C8: the record mapping and the processed count after any lines are those
\* of the same lines with every comment and malformed line taken out: such a
\* line makes no record, changes none, is not counted, and the lines after it
\* are processed as if it had not been there.
C8_MalformedLinesHaveNoEffect ==
  /\ [dictionary |-> dictionary, count |-> count]
       = FoldLines(frequency_map, Start, WithoutMalformed(consumed))
  /\ \A k \in 1..Len(consumed) :
       NamedMalformed(consumed[k]) => ~Parsed[consumed[k]].ok

\* a line with no ']' between two lines of one key
C8_Witness ==
  /\ consumed = <<LineAap, LineNoClose, LineAaq>>
  /\ count = 2
  /\ dictionary[A].pinyin = <<"p", ";", " ", "q">>

\* ---------------------------------------------------------------- C9
\* C9 as stated: with a maximum entry count N the number of candidates
\* processed never exceeds N.
C9_CapNeverExceeded ==
  max_entries # None => count <= max_entries[1]

\* C9 amended: with a maximum entry count N >= 1 the number of candidates
\* processed never exceeds N, the loop is left at the N-th accepted candidate,
\* and the result is that of the uncapped loop over the input cut just after
\* that candidate; with max_entries None or 0 the loop ends only at the end
\* of the file.
C9_CapFromOne ==
  /\ (max_entries # None /\ max_entries[1] >= 1) =>
       /\ count <= max_entries[1]
       /\ count = max_entries[1] =>
            (pc = "done" /\ ~eof /\ Parsed[consumed[Len(consumed)]].ok)
       /\ (pc = "done" /\ ~eof) => count = max_entries[1]
  /\ (max_entries = None \/ max_entries = Some(0)) => (pc = "done" => eof)
  /\ [dictionary |-> dictionary, count |-> count]
       = FoldLines(frequency_map, Start, consumed)
  /\ count = Len(CandidatesOf(consumed))

\* the cap of 2 is reached by a new record and a merge, with a skip between
C9_Witness ==
  /\ max_entries = Some(2)
  /\ consumed = <<LineAap, LineNoOpen, LineAaq>>
  /\ pc = "done" /\ ~eof /\ count = 2

\* --------------------------------------------------------------- C10
\* C10: one record per traditional text seen, keyed by its traditional
\* field, with the traditional and simplified text of the first candidate of
\* that key; a step changes no record under another key.
C10_FirstSeenKept ==
  /\ [](/\ DOMAIN dictionary =
             {CandidatesOf(consumed)[k].traditional :
                k \in 1..Len(CandidatesOf(consumed))}
        /\ \A key \in DOMAIN dictionary :
             /\ dictionary[key].traditional = key
             /\ dictionary[key].traditional = CandsFor(key)[1].traditional
             /\ dictionary[key].simplified = CandsFor(key)[1].simplified)
  /\ [][\A key \in DOMAIN dictionary :
          /\ key \in DOMAIN dictionary'
          /\ dictionary'[key].traditional = dictionary[key].traditional
          /\ dictionary'[key].simplified = dictionary[key].simplified
          /\ (ReadsLine /\ Parsed[LineRead].ok
              /\ Parsed[LineRead].traditional # key)
               => dictionary'[key] = dictionary[key]]_vars

\* a later line of key A spells the simplified text b; a record B stands by
C10_Witness ==
  /\ consumed = <<LineBbq, LineAap, LineAbp>>
  /\ DOMAIN dictionary = {A, B}
  /\ dictionary[A].simplified = <<"a">>
  /\ dictionary[B].simplified = <<"b">>

\* ---------------------------------------------------------------- C6
\* a step of the builder gives the word its first score
FirstAssigned(word) ==
  word \notin DOMAIN frequency_map /\ word \in DOMAIN frequency_map'

\* C6 as stated: a word first assigned at rank r = page index * 1000 +
\* position in page receives SPAN + 1 - r with SPAN = 11000.
C6_SpanPlusOne ==
  [][\A word \in DOMAIN frequency_map' :
       FirstAssigned(word) =>
         frequency_map'[word] = (11000 + 1) - ((i * 1000) + row_count')]_vars

\* C6 amended: a word first assigned at rank r = page index * 1000 +
\* position in page receives 11000 - r, so that rank 1 gets the maximum
\* score 10999 and rank 10999 gets score 1; the score is positive for every
\* rank of the 10-page, 10000-word source.
C6_BaseMinusRank ==
  /\ Score(1) = 10999
  /\ Score(10999) = 1
  /\ \A r \in 1..10000 : Score(r) > 0 /\ Score(r) <= Score(1)
  /\ [][\A word \in DOMAIN frequency_map' :
          FirstAssigned(word) =>
            /\ frequency_map'[word] = 11000 - ((i * 1000) + row_count')
            /\ frequency_map'[word] > 0]_vars

\* A is first assigned at rank 1, a at position 2 of the second page
C6_Witness ==
  /\ DOMAIN frequency_map = {<<"A">>, <<"a">>}
  /\ frequency_map[<<"A">>] = 10999
  /\ frequency_map[<<"a">>] = 9998
  /\ i = 1 /\ row_count = 2

\* ---------------------------------------------------------------- C7
\* C7: a word text that has a score keeps it through every later row and
\* page, and the score is the one of the lowest rank among the rows that
\* yielded the text as traditional or simplified, which is the highest score
\* any of those rows offers.
C7_FirstScoreKept ==
  /\ [](/\ DOMAIN frequency_map = DOMAIN best
        /\ \A word \in DOMAIN frequency_map :
             frequency_map[word] = 11000 - best[word])
  /\ [][\A word \in DOMAIN frequency_map :
          /\ word \in DOMAIN frequency_map'
          /\ frequency_map'[word] = frequency_map[word]]_vars

\* A, first assigned at rank 1, came again in a row of a later page
C7_Witness ==
  /\ <<"A">> \in skipped
  /\ frequency_map[<<"A">>] = 10999
  /\ i >= 1

====
